---- MODULE Spec2Model ----
(***************************************************************************)
(* The resilient API client of the yoga-pose-detection frontend: the       *)
(* AuthProvider component in its three variants.                           *)
(*                                                                         *)
(*   "part_000"    src/unnamed/part_000: health probe + retrying apiCall   *)
(*   "part_001"    src/unnamed/part_001: health probe + apiCall with       *)
(*                 reactive failover, no retry                             *)
(*   "AuthContext" src/frontend/src/contexts/AuthContext.js: one base URL, *)
(*                 retrying apiCall                                        *)
(*                                                                         *)
(* React state (useState) is the module's variables.  Every async function *)
(* is a task that runs from one await to the next in one step; a task      *)
(* keeps the values its closure captured when it was started (token,       *)
(* currentApiUrl), as a function created by useCallback does.  The         *)
(* 'loading' flag, which only the pages read, is left out.                 *)
(***************************************************************************)
EXTENDS Integers, Sequences, FiniteSets, TLC

\* ------------------------------------------------------------------ bounds

\* Number of async functions (init, login, register, probe, call) in flight.
MaxTasks == 1
\* Largest retry budget a caller of apiCall passes.
MaxRetryBudget == 2
\* Number of async functions in flight where they overlap.
MaxOverlap == 2
\* Number of things the user does (login, register, logout, a call, a probe)
\* in one behaviour; reloads of the page are not counted.
MaxOps == 2

\* ------------------------------------------------------- program constants

\* apiCall's default parameter: retries = 2.
DefaultRetries == 2

VHealthRetry == "part_000"
VFailover == "part_001"
VSingle == "AuthContext"
Variants == {VHealthRetry, VFailover, VSingle}

PRODUCTION_API_URL == "https://yoga-pose-detection-1.onrender.com/api"
LOCAL_API_URL == "http://localhost:5000/api"
API_BASE_URL == "http://localhost:5000/api"

\* ------------------------------------------------------------- JS values

JSNull == "#null"
JSUndef == "#undefined"
\* localStorage holds no item under 'yogaToken'.
NoItem == "#noitem"

\* A value in a boolean position (token && ..., !token, a || b).
Truthy(v) == v \notin {JSNull, JSUndef, ""}

\* localStorage.setItem stores String(value).
ToStorageString(v) ==
  IF v = JSUndef THEN "undefined" ELSE IF v = JSNull THEN "null" ELSE v

\* localStorage.getItem: null when there is no item.
GetItem(store) == IF store = NoItem THEN JSNull ELSE store

\* A message is the sequence of its words; '' is <<>>.
Includes(msg, pat) ==
  \E i \in 0..(Len(msg) - Len(pat)) : \A j \in 1..Len(pat) : msg[i + j] = pat[j]

\* a || b on messages: '' and undefined are falsy.
OrElse(msg, fallback) == IF msg = <<>> THEN fallback ELSE msg

\* { ...a, ...b }
Merge(a, b) ==
  [k \in DOMAIN a \cup DOMAIN b |-> IF k \in DOMAIN b THEN b[k] ELSE a[k]]

NoHeaders == <<>>

\* --------------------------------------------------------------- messages

M_FailedToFetch == <<"Failed", "to", "fetch">>
M_Aborted == <<"The", "user", "aborted", "a", "request", ".">>
M_NativeNetwork == <<"network", "error">>
M_NativeTimeout == <<"timeout">>
M_HealthFailed == <<"Health", "check", "failed">>
M_BadJSON == <<"Unexpected", "token", "in", "JSON">>
M_RequestFailed == <<"Request", "failed">>
M_SomethingWrong == <<"Something", "went", "wrong">>
M_Unable ==
  <<"Unable", "to", "connect", "to", "server", ".", "Please", "try", "again", ".">>
M_Waking == <<"Waking", "up", "server">>
M_LoggingIn == <<"Logging", "in">>
M_Creating == <<"Creating", "account">>
M_BothUnavailable ==
  <<"Both", "production", "and", "local", "servers", "are", "unavailable", ".",
    "Please", "try", "again", "later", ".">>

\* Messages a server sends with a status >= 400.
M_InvalidCredentials == <<"Invalid", "credentials">>
M_FetchUser == <<"Failed", "to", "fetch", "user">>
ServerMessages == {<<>>, M_InvalidCredentials, M_FetchUser}

\* ------------------------------------------------- responses and errors

\* A parsed response body; an absent field is undefined ('' for message).
Data(success, token, user, message) ==
  [success |-> success, token |-> token, user |-> user, message |-> message]
NoData == Data(FALSE, JSUndef, JSUndef, <<>>)

Err(name, message) ==
  [kind |-> "err", name |-> name, message |-> message, data |-> NoData]
Ok(data) == [kind |-> "ok", name |-> "", message |-> <<>>, data |-> data]
NoResult == [kind |-> "none", name |-> "", message |-> <<>>, data |-> NoData]

\* What the network does with one request: an HTTP response, a connection
\* failure, or no answer at all.
Http(status, data) == [kind |-> "http", status |-> status, data |-> data]
NetFail == [kind |-> "netfail", status |-> 0, data |-> NoData]
NoAnswer == [kind |-> "none", status |-> 0, data |-> NoData]

\* The token a page load may find stored, and the one a server issues.
StoredToken == "t1"
IssuedToken == "t2"
SuccessPayloads ==
  {Data(TRUE, IssuedToken, "u1", <<>>), Data(FALSE, JSUndef, JSUndef, <<>>)}
ApiOutcomes ==
  {Http(200, d) : d \in SuccessPayloads}
    \cup {Http(400, Data(FALSE, JSUndef, JSUndef, m)) : m \in ServerMessages}
    \cup {NetFail, NoAnswer}
HealthOutcomes ==
  {Http(200, NoData), Http(503, NoData), NetFail, NoAnswer}

NoOutcome == [kind |-> "", status |-> 0, data |-> NoData]

\* A response the code throws on for its status: response.status >= 400.
Rejected(out) == out.kind = "http" /\ out.status >= 400

\* response.ok
ResponseOk(out) == out.kind = "http" /\ out.status >= 200 /\ out.status <= 299

\* The message a status >= 400 is thrown with: data.message || <generic>.
GenericMessage(variant) ==
  IF variant = VHealthRetry THEN M_RequestFailed ELSE M_SomethingWrong

\* Whether the dispatch is bounded by a timeout that aborts it.  part_001's
\* fetch has no signal; the others abort after 60 s (web) or pass
\* readTimeout/connectTimeout (native).
DispatchHasTimeout(variant) == variant # VFailover

\* WebAttempt with a fault: the parsed body of a good response is dropped.
WebAttemptDropsPayload(variant, out) ==
  CASE out.kind = "netfail" -> Err("TypeError", M_FailedToFetch)
    [] out.kind = "none" -> Err("AbortError", M_Aborted)
    [] ResponseOk(out) -> Ok(NoData)
    [] OTHER -> Err("Error", OrElse(out.data.message, GenericMessage(variant)))

\* One dispatch of apiCall through the web transport (fetch), from the
\* request's outcome to the value returned or the error thrown.
WebAttempt(variant, out) ==
  CASE out.kind = "netfail" -> Err("TypeError", M_FailedToFetch)
    [] out.kind = "none" -> Err("AbortError", M_Aborted)
    [] ResponseOk(out) -> Ok(out.data)
    [] OTHER -> Err("Error", OrElse(out.data.message, GenericMessage(variant)))

\* One dispatch through CapacitorHttp.request.
NativeAttempt(variant, out) ==
  CASE out.kind = "netfail" -> Err("Error", M_NativeNetwork)
    [] out.kind = "none" -> Err("Error", M_NativeTimeout)
    [] out.status >= 400 ->
         Err("Error", OrElse(out.data.message, GenericMessage(variant)))
    [] OTHER -> Ok(out.data)

\* Whether the dispatch goes through CapacitorHttp.
UsesNative(variant, native) == native /\ variant # VFailover

Attempt(variant, native, out) ==
  IF UsesNative(variant, native)
    THEN NativeAttempt(variant, out)
    ELSE WebAttempt(variant, out)

\* The catch block's test for an error worth retrying.
Retryable(err) ==
  \/ err.name = "AbortError"
  \/ Includes(err.message, <<"fetch">>)
  \/ Includes(err.message, <<"Failed", "to", "fetch">>)
  \/ Includes(err.message, <<"network">>)

\* ShouldRetry with a fault: the budget is tested with >= instead of >.
ShouldRetryOnceMore(retries, err) == retries >= 0 /\ Retryable(err)

\* if (retries > 0 && (...)).
ShouldRetry(retries, err) == retries > 0 /\ Retryable(err)

\* The Authorization header's value.
Bearer(token) == "Bearer " \o token

\* The headers of a dispatch.  opts is the caller's options object.
DefaultHeaders(token) ==
  Merge([k \in {"Content-Type"} |-> "application/json"],
        IF Truthy(token)
          THEN [k \in {"Authorization"} |-> Bearer(token)]
          ELSE NoHeaders)

ComposeHeaders(variant, token, opts) ==
  IF variant = VFailover
    THEN \* config = { headers: {...}, ...options }
         IF opts.hasHeaders THEN opts.headers
         ELSE DefaultHeaders(token)
    ELSE Merge(DefaultHeaders(token),
               IF opts.hasHeaders THEN opts.headers ELSE NoHeaders)

Options(hasHeaders, headers) ==
  [hasHeaders |-> hasHeaders, headers |-> headers, body |-> JSUndef]
NoOptionsHeaders == Options(FALSE, NoHeaders)

\* The options with a body: serialized text, as fetch takes it.
WithBody(opts, body) == [opts EXCEPT !.body = body]

\* JSON.stringify(data) of login and register, an empty string, and a text
\* that is not JSON.
StringifiedBody == "{\"email\":\"a\"}"
EmptyBody == ""
BrokenBody == "{email"
Bodies == {StringifiedBody, EmptyBody, BrokenBody}

\* JSON.parse(text): the object, or a SyntaxError.
JSONTexts == {StringifiedBody}
ParseJSON(text) ==
  IF text \in JSONTexts THEN [kind |-> "ok", value |-> "object " \o text]
  ELSE [kind |-> "err", value |-> JSUndef]

\* data: options.body ? JSON.parse(options.body) : undefined
NativeData(body) == IF Truthy(body) THEN ParseJSON(body)
                    ELSE [kind |-> "ok", value |-> JSUndef]

\* The body a dispatch is sent with.
SentBody(variant, native, opts) ==
  IF UsesNative(variant, native) THEN NativeData(opts.body).value
  ELSE opts.body

\* The error part_001's apiCall throws when both dispatches failed.
BothFailed(capUrl, first, second) ==
  IF capUrl # LOCAL_API_URL
    THEN Err("Error",
             <<"Both", "production", "and", "local", "APIs", "failed", ".",
               "Production", ":">> \o first.message \o <<",", "Local", ":">>
               \o second.message)
    ELSE Err("Error",
             <<"Both", "APIs", "failed", ".", "Local", ":">> \o first.message
               \o <<",", "Production", ":">> \o second.message)

\* FailoverUrl with a fault: the failover goes to the same endpoint again.
FailoverUrlSameAgain(capUrl) == capUrl

\* The other candidate, which part_001's apiCall fails over to.
FailoverUrl(capUrl) ==
  IF capUrl # LOCAL_API_URL THEN LOCAL_API_URL ELSE PRODUCTION_API_URL

\* UrlAfterBothFailed with a fault: the endpoint is cleared.
UrlAfterBothFailedCleared(capUrl, url) == JSUndef

\* currentApiUrl after part_001's apiCall has failed on both.
UrlAfterBothFailed(capUrl, url) ==
  IF capUrl # LOCAL_API_URL THEN PRODUCTION_API_URL ELSE url

\* --------------------------------------------------------- health probe

\* Whether one health request counts as alive.  part_000's tryHealth throws
\* on !res.ok and aborts after its timeout; part_001 tests response.ok.
HealthAlive(out) == ResponseOk(out)

\* What one health request does inside checkApiHealth: the error it throws,
\* Ok when it is answered 2xx, and NoResult when it is answered otherwise
\* without a throw (part_001 only reads response.ok).
HealthAttempt(variant, out) ==
  CASE out.kind = "netfail" -> Err("TypeError", M_FailedToFetch)
    [] out.kind = "none" -> Err("AbortError", M_Aborted)
    [] ResponseOk(out) -> Ok(NoData)
    [] OTHER -> IF variant = VHealthRetry THEN Err("Error", M_HealthFailed)
                ELSE NoResult

\* ProbeCatches with a fault: only an abort is caught.
ProbeCatchesOnlyAborts(err) == err.name = "AbortError"

\* Whether checkApiHealth's catch blocks take a thrown error: they have no
\* filter.
ProbeCatches(err) == TRUE

\* part_001 passes fetch a 'timeout' option, which fetch ignores.
HealthHasTimeout(variant) == variant = VHealthRetry

\* ProbeBranch with a fault: the fallback's answer is not looked at.
ProbeBranchFallbackIgnored(primaryAlive, fallbackAlive) ==
  IF primaryAlive THEN "primary" ELSE "none"

\* The branch checkApiHealth ends in, from whether each candidate was alive
\* (the fallback is asked only when the primary is not).
ProbeBranch(primaryAlive, fallbackAlive) ==
  IF primaryAlive THEN "primary"
  ELSE IF fallbackAlive THEN "fallback"
  ELSE "none"

\* ProbeSets with a fault: setApiStatus('offline') is missing.
ProbeSetsNoOffline(branch) ==
  CASE branch = "primary" -> "production"
    [] branch = "fallback" -> "local"
    [] OTHER -> "checking"

\* setApiStatus(...) in that branch.
ProbeSets(branch) ==
  CASE branch = "primary" -> "production"
    [] branch = "fallback" -> "local"
    [] OTHER -> "offline"

\* ProbeReturns with a fault: the fallback's branch returns 'production'.
ProbeReturnsPrimaryTwice(branch) ==
  CASE branch = "primary" -> "production"
    [] branch = "fallback" -> "production"
    [] OTHER -> "offline"

\* return ... in that branch.
ProbeReturns(branch) ==
  CASE branch = "primary" -> "production"
    [] branch = "fallback" -> "local"
    [] OTHER -> "offline"

\* ProbeUrl with a fault: setCurrentApiUrl(PRODUCTION_API_URL) is missing.
ProbeUrlPrimaryKept(branch, url) ==
  CASE branch = "fallback" -> LOCAL_API_URL
    [] OTHER -> url

\* ProbeUrl with a fault: the offline branch goes back to the primary.
ProbeUrlResets(branch, url) ==
  CASE branch = "fallback" -> LOCAL_API_URL
    [] OTHER -> PRODUCTION_API_URL

\* Whether that branch calls setCurrentApiUrl.
ProbeWritesUrl(branch) == branch \in {"primary", "fallback"}

\* currentApiUrl after that branch: setCurrentApiUrl(...) in the first two.
ProbeUrl(branch, url) ==
  CASE branch = "primary" -> PRODUCTION_API_URL
    [] branch = "fallback" -> LOCAL_API_URL
    [] OTHER -> url

\* ------------------------------------------- login and register handlers

\* The message login's catch block reports (setError) for a thrown error.
LoginErrorMessage(variant, err, capUrl) ==
  CASE variant = VHealthRetry -> M_Unable
    [] variant = VFailover ->
         IF Includes(err.message, <<"fetch">>)
              \/ Includes(err.message, <<"NetworkError">>)
           THEN <<"Cannot", "connect", "to", "server", ".", "Current", "API", ":",
                  IF capUrl = PRODUCTION_API_URL THEN "Production (Render)"
                  ELSE "Local", ".">> \o err.message
           ELSE IF Includes(err.message, <<"Both", "APIs", "failed">>)
             THEN M_BothUnavailable
             ELSE err.message
    [] OTHER ->
         IF Includes(err.message, <<"fetch">>)
              \/ Includes(err.message, <<"NetworkError">>)
              \/ Includes(err.message, <<"Failed", "to", "fetch">>)
           THEN <<"Cannot", "connect", "to", "server", "at", API_BASE_URL, ".",
                  "Please", "check", "your", "internet", "connection", "and",
                  "try", "again", ".">>
           ELSE err.message

\* Whether the handler stores the token and the user of a returned payload.
\* part_000 stores whatever came back; the others test response.success.
StoresSession(variant, data) == variant = VHealthRetry \/ data.success

\* The session state (token, user, error, localStorage) after login or
\* register has handled apiCall's result r.  s is the state before.
AfterAuth(variant, op, r, capUrl, s) ==
  IF r.kind = "ok"
    THEN LET cleared ==
               IF variant = VSingle \/ (variant = VHealthRetry /\ op = "login")
                 THEN <<>> ELSE s.error
         IN IF StoresSession(variant, r.data)
              THEN [token |-> r.data.token, user |-> r.data.user,
                    error |-> cleared,
                    localStorage |-> ToStorageString(r.data.token)]
              ELSE [s EXCEPT !.error = cleared]
    ELSE [s EXCEPT !.error =
            IF op = "login" THEN LoginErrorMessage(variant, r, capUrl)
            ELSE r.message]

\* The session state after the startup verification has handled apiCall's
\* result: the user is set on a payload with success, and the token is
\* dropped from memory and from localStorage otherwise.
AfterVerify(r, s) ==
  IF r.kind = "ok" /\ r.data.success
    THEN [s EXCEPT !.user = r.data.user]
    ELSE [s EXCEPT !.token = JSNull, !.localStorage = NoItem]

\* ------------------------------------------------------------------ state

VARIABLES
  variant,        \* which variant of AuthProvider is running
  native,         \* isNative()
  user, token, error, apiStatus, currentApiUrl,   \* useState
  localStorage,   \* the item 'yogaToken'
  effectPending,  \* the effect [token, apiCall, checkApiHealth] is due
  started,        \* the effect has run since the component was mounted
  tasks,          \* the async functions in flight, oldest first
  ops,            \* how many things the user has done
  slots,          \* how many async functions may be in flight together
  ev              \* the step just taken

vars == <<variant, native, user, token, error, apiStatus, currentApiUrl,
          localStorage, effectPending, started, tasks, ops, slots, ev>>

\* kind: the async function; pc: the await it is at; capToken, capUrl: the
\* token and currentApiUrl of its closure; retries: apiCall's parameter, and
\* budget its value in the first call; sent: the dispatches made; asked: the
\* health requests made; probeRet: what its checkApiHealth returned;
\* firstErr: the error of part_001's first dispatch; statusWrites, urlWrites:
\* the calls of setApiStatus and setCurrentApiUrl its checkApiHealth made.
IdleTask ==
  [kind |-> "idle", pc |-> "idle", capToken |-> JSNull,
   capUrl |-> PRODUCTION_API_URL, retries |-> 0, budget |-> 0,
   opts |-> NoOptionsHeaders, path |-> "", sent |-> <<>>,
   asked |-> <<>>, probeRet |-> "", firstErr |-> NoResult,
   statusWrites |-> 0, urlWrites |-> 0]

\* The step just taken: its type, the task that took it (as it was when the
\* step ended the probe or the call), the outcome of the request answered,
\* what apiCall returned or threw, what checkApiHealth returned, and
\* currentApiUrl before the step.
Event(type, task, out, ret, status) ==
  [type |-> type, task |-> task, out |-> out, ret |-> ret, status |-> status,
   urlPre |-> currentApiUrl]

Started(type) == Event(type, IdleTask, NoOutcome, NoResult, "")

Session == [token |-> token, user |-> user, error |-> error,
            localStorage |-> localStorage]

\* A new render whose token or apiCall differs runs the effect again.
EffectDue ==
  \/ effectPending
  \/ token' # token
  \/ variant # VSingle /\ currentApiUrl' # currentApiUrl

InitialUrl(v) == IF v = VSingle THEN API_BASE_URL ELSE PRODUCTION_API_URL
InitialStatus(v) == IF v = VSingle THEN "none" ELSE "checking"

\* The component as mounted over the given localStorage.
Mounted(v, n, store) ==
  /\ variant = v
  /\ native = n
  /\ user = JSNull
  /\ token = GetItem(store)
  /\ error = <<>>
  /\ apiStatus = InitialStatus(v)
  /\ currentApiUrl = InitialUrl(v)
  /\ localStorage = store
  /\ effectPending = TRUE
  /\ started = FALSE
  /\ tasks = <<>>
  /\ ops = 0

Init ==
  /\ \E v \in Variants, n \in BOOLEAN, store \in {NoItem, StoredToken} :
       /\ v = VFailover => ~n    \* part_001 has no native transport
       /\ Mounted(v, n, store)
  /\ slots = MaxTasks
  /\ ev = Started("mount")

\* ---------------------------------------------------------------- steps

Running == 1..Len(tasks)
CanStart == Len(tasks) < slots

UserActs == ops < MaxOps /\ ops' = ops + 1

\* tasks with task i replaced, and with task i gone.
Put(i, task) == [tasks EXCEPT ![i] = task]
Drop(i) ==
  [j \in 1..(Len(tasks) - 1) |-> IF j < i THEN tasks[j] ELSE tasks[j + 1]]

\* tasks after task i has become next: gone when it is over.
Becomes(i, next) == IF next.kind = "idle" THEN Drop(i) ELSE Put(i, next)

\* An await that never settles: its async function never goes on, and the
\* step records where it stopped.
Hangs(i, out) ==
  /\ tasks' = Drop(i)
  /\ ev' = Event("hung", tasks[i], out, NoResult, "")

\* An async function started now: its closure holds this render's values.
NewTask(kind, path, opts, budget) ==
  [IdleTask EXCEPT !.kind = kind, !.capToken = token,
                   !.capUrl = currentApiUrl, !.retries = budget,
                   !.budget = budget, !.opts = opts, !.path = path]

\* Dispatched with a fault: the endpoint is read from the shared
\* currentApiUrl when the dispatch is made, not taken from the function.
DispatchedToShared(task, url) ==
  [task EXCEPT !.pc = "dispatch",
               !.sent = Append(@, [url |-> currentApiUrl, path |-> task.path,
                                   headers |-> ComposeHeaders(variant,
                                                 task.capToken, task.opts),
                                   body |-> SentBody(variant, native,
                                                     task.opts)])]

\* apiCall's dispatch: url = base + endpoint, headers from the closure's token.
Dispatched(task, url) ==
  [task EXCEPT !.pc = "dispatch",
               !.sent = Append(@, [url |-> url, path |-> task.path,
                                   headers |-> ComposeHeaders(variant,
                                                 task.capToken, task.opts),
                                   body |-> SentBody(variant, native,
                                                     task.opts)])]

\* checkApiHealth up to its first await: setApiStatus('checking') and the
\* health request to the primary.
ProbeStarted(task) ==
  [task EXCEPT !.pc = "healthP", !.asked = <<PRODUCTION_API_URL>>,
               !.probeRet = "", !.statusWrites = 1, !.urlWrites = 0]

SessionUnchanged == UNCHANGED <<user, token, error, localStorage>>

SetSession(s) ==
  /\ token' = s.token
  /\ user' = s.user
  /\ error' = s.error
  /\ localStorage' = s.localStorage

\* The effect: init (part_000), initializeApp (part_001), verifyToken
\* (AuthContext.js), up to its first await.
StartInit ==
  /\ effectPending
  /\ CanStart
  /\ effectPending' = FALSE
  /\ started' = TRUE
  /\ UNCHANGED <<variant, native, slots, currentApiUrl, ops>>
  /\ SessionUnchanged
  /\ IF variant # VSingle
       THEN /\ apiStatus' = "checking"
            /\ tasks' = Append(tasks,
                 ProbeStarted(NewTask("init", "/auth/verify-token",
                                      NoOptionsHeaders, DefaultRetries)))
            /\ ev' = Started("probeStart")
       ELSE /\ apiStatus' = apiStatus
            /\ tasks' = IF Truthy(token)
                 THEN Append(tasks,
                        Dispatched(NewTask("init", "/auth/verify-token",
                                           NoOptionsHeaders, DefaultRetries),
                                   currentApiUrl))
                 ELSE tasks
            /\ ev' = Started("initStart")

\* A consumer of the context calls checkApiHealth.
StartProbe ==
  /\ variant # VSingle
  /\ UserActs
  /\ CanStart
  /\ apiStatus' = "checking"
  /\ tasks' = Append(tasks,
       ProbeStarted(NewTask("probe", "", NoOptionsHeaders, 0)))
  /\ ev' = Started("probeStart")
  /\ UNCHANGED <<variant, native, slots, started, currentApiUrl, effectPending>>
  /\ SessionUnchanged

\* The task after its probe has returned: a probe is over, init goes on to
\* verify the token its closure holds, through the apiCall of its closure.
AfterProbe(task) ==
  IF task.kind = "init" /\ Truthy(task.capToken)
    THEN Dispatched(task, task.capUrl)
    ELSE IdleTask

\* A health request is answered, fails, or stays unanswered.
HealthRespond(i, out) ==
  LET task == tasks[i]
      alive == HealthAlive(out)
      thrown == HealthAttempt(variant, out)
      branch == IF task.pc = "healthP" THEN ProbeBranch(alive, FALSE)
                ELSE ProbeBranch(FALSE, alive)
      ended == [task EXCEPT
                  !.statusWrites = @ + 1,
                  !.urlWrites = @ + IF ProbeWritesUrl(branch) THEN 1 ELSE 0]
      back == [ended EXCEPT !.probeRet = ProbeReturns(branch), !.asked = <<>>]
  IN /\ task.pc \in {"healthP", "healthF"}
     /\ UNCHANGED <<variant, native, slots, started, ops>>
     /\ SessionUnchanged
     /\ IF out.kind = "none" /\ ~HealthHasTimeout(variant)
          THEN \* fetch never settles
               /\ Hangs(i, out)
               /\ UNCHANGED <<apiStatus, currentApiUrl, effectPending>>
          ELSE IF thrown.kind = "err" /\ ~ProbeCatches(thrown)
            THEN \* checkApiHealth rejects, and so does the init awaiting it
                 /\ tasks' = Drop(i)
                 /\ ev' = Event("probeThrew", task, out, thrown, "")
                 /\ UNCHANGED <<apiStatus, currentApiUrl, effectPending>>
          ELSE IF task.pc = "healthP" /\ ~alive
            THEN /\ tasks' = Put(i, [task EXCEPT
                                       !.pc = "healthF",
                                       !.asked = Append(@, LOCAL_API_URL)])
                 /\ ev' = Event("probeNext", task, out, NoResult, "")
                 /\ UNCHANGED <<apiStatus, currentApiUrl, effectPending>>
            ELSE /\ apiStatus' = ProbeSets(branch)
                 /\ currentApiUrl' = ProbeUrl(branch, currentApiUrl)
                 /\ tasks' = Becomes(i, AfterProbe(back))
                 /\ effectPending' = EffectDue
                 /\ ev' = Event("probeDone", ended, out, NoResult,
                                 ProbeReturns(branch))

\* Whether the handler first wakes the server with a request to /health.
Wakes(v, op) == v = VSingle \/ (v = VHealthRetry /\ op = "login")

\* login or register up to its first await.
StartAuth(op) ==
  /\ CanStart
  /\ UserActs
  /\ UNCHANGED <<variant, native, slots, started, currentApiUrl, apiStatus, effectPending,
                 user, token, localStorage>>
  /\ ev' = Started("authStart")
  /\ LET task == NewTask(op, IF op = "login" THEN "/auth/login"
                             ELSE "/auth/register",
                         WithBody(NoOptionsHeaders, StringifiedBody),
                         DefaultRetries)
     IN IF Wakes(variant, op)
          THEN /\ error' = M_Waking
               /\ tasks' = Append(tasks, [task EXCEPT !.pc = "wake"])
          ELSE /\ error' = IF variant = VFailover THEN <<>> ELSE error
               /\ tasks' = Append(tasks, Dispatched(task, task.capUrl))

\* The wake-up request to /health settles (its result is ignored) or never
\* does: it has no timeout.
WakeRespond(i, out) ==
  LET task == tasks[i]
  IN /\ task.pc = "wake"
     /\ UNCHANGED <<variant, native, slots, started, currentApiUrl, apiStatus, effectPending,
                    user, token, localStorage, ops>>
     /\ IF out.kind = "none"
          THEN /\ Hangs(i, out)
               /\ error' = error
          ELSE /\ tasks' = Put(i, Dispatched(task, task.capUrl))
               /\ error' = IF variant = VSingle
                             THEN IF task.kind = "login" THEN M_LoggingIn
                                  ELSE M_Creating
                             ELSE error
               /\ ev' = Event("woken", task, out, NoResult, "")

\* A consumer of the context calls apiCall.
StartCall(opts, retries) ==
  /\ CanStart
  /\ UserActs
  /\ LET task == NewTask("call", "/progress", opts, retries)
     IN IF UsesNative(variant, native) /\ NativeData(opts.body).kind = "err"
          THEN \* JSON.parse throws inside the try, before any request: the
               \* catch block does not take a SyntaxError for transient
               /\ ~ShouldRetry(retries, Err("SyntaxError", M_BadJSON))
               /\ tasks' = tasks
               /\ ev' = Event("callDone", task, NoOutcome,
                              Err("SyntaxError", M_BadJSON), "")
          ELSE /\ tasks' = Append(tasks, Dispatched(task, currentApiUrl))
               /\ ev' = Started("callStart")
  /\ UNCHANGED <<variant, native, slots, started, currentApiUrl, apiStatus, effectPending>>
  /\ SessionUnchanged

\* The session state after the caller of apiCall has handled its result.
SessionAfter(task, r) ==
  CASE task.kind = "init" -> AfterVerify(r, Session)
    [] task.kind \in {"login", "register"} ->
         AfterAuth(variant, task.kind, r, task.capUrl, Session)
    [] OTHER -> Session

\* apiCall returns or throws r to its caller, which handles it.
Finish(i, out, r) ==
  /\ SetSession(SessionAfter(tasks[i], r))
  /\ tasks' = Drop(i)
  /\ ev' = Event("callDone", tasks[i], out, r, "")

\* A dispatch is answered, fails, or stays unanswered.  A retry waits 2 s
\* and dispatches again with retries - 1; the wait reads and writes nothing
\* shared, so it is taken together with the failed answer.
Respond(i, out) ==
  LET task == tasks[i]
      r == Attempt(variant, native, out)
  IN /\ task.pc = "dispatch"
     /\ UNCHANGED <<variant, native, slots, started, apiStatus, ops>>
     /\ IF out.kind = "none" /\ ~DispatchHasTimeout(variant)
          THEN /\ Hangs(i, out)
               /\ UNCHANGED <<currentApiUrl, effectPending>>
               /\ SessionUnchanged
          ELSE IF r.kind = "ok"
            THEN /\ Finish(i, out, r)
                 /\ currentApiUrl' = currentApiUrl
                 /\ effectPending' = EffectDue
          ELSE IF variant # VFailover
            THEN IF ShouldRetry(task.retries, r)
                   THEN /\ tasks' = Put(i,
                             Dispatched([task EXCEPT !.retries = @ - 1],
                                        task.capUrl))
                        /\ ev' = Event("retry", task, out, NoResult, "")
                        /\ UNCHANGED <<currentApiUrl, effectPending>>
                        /\ SessionUnchanged
                   ELSE /\ Finish(i, out, r)
                        /\ currentApiUrl' = currentApiUrl
                        /\ effectPending' = EffectDue
          ELSE IF Len(task.sent) = 1
            THEN \* fail over to the other candidate
                 /\ currentApiUrl' = FailoverUrl(task.capUrl)
                 /\ tasks' = Put(i, Dispatched([task EXCEPT !.firstErr = r],
                                               FailoverUrl(task.capUrl)))
                 /\ ev' = Event("failover", task, out, NoResult, "")
                 /\ SessionUnchanged
                 /\ effectPending' = EffectDue
            ELSE /\ currentApiUrl' =
                      UrlAfterBothFailed(task.capUrl, currentApiUrl)
                 /\ Finish(i, out, BothFailed(task.capUrl, task.firstErr, r))
                 /\ effectPending' = EffectDue

Logout ==
  /\ UserActs
  /\ localStorage' = NoItem
  /\ user' = JSNull
  /\ token' = JSNull
  /\ error' = IF variant = VHealthRetry THEN error ELSE <<>>
  /\ UNCHANGED <<variant, native, slots, started, currentApiUrl, apiStatus, tasks>>
  /\ effectPending' = EffectDue
  /\ ev' = Started("logout")

\* The page is loaded again: the component mounts over the stored token.
Restart ==
  /\ user' = JSNull
  /\ token' = GetItem(localStorage)
  /\ error' = <<>>
  /\ apiStatus' = InitialStatus(variant)
  /\ currentApiUrl' = InitialUrl(variant)
  /\ effectPending' = TRUE
  /\ started' = FALSE
  /\ tasks' = <<>>
  /\ ev' = [Started("mount") EXCEPT !.urlPre = InitialUrl(variant)]
  /\ UNCHANGED <<variant, native, slots, localStorage, ops>>

\* The calls consumers make: the default budget with and without headers of
\* their own, and every smaller budget.
CallShapes ==
  {<<NoOptionsHeaders, n>> : n \in 0..MaxRetryBudget}
    \cup {<<Options(TRUE, [k \in {"X-Client"} |-> "web"]), DefaultRetries>>}
    \cup {<<WithBody(NoOptionsHeaders, b), DefaultRetries>> : b \in Bodies}

Next ==
  \/ StartInit
  \/ StartProbe
  \/ \E i \in Running, out \in HealthOutcomes : HealthRespond(i, out)
  \/ \E op \in {"login", "register"} : StartAuth(op)
  \/ \E i \in Running, out \in HealthOutcomes : WakeRespond(i, out)
  \/ \E c \in CallShapes : StartCall(c[1], c[2])
  \/ \E i \in Running, out \in ApiOutcomes : Respond(i, out)
  \/ Logout
  \/ Restart

Spec == Init /\ [][Next]_vars

\* ------------------------------------------------- overlapping functions

\* The web build of the two variants with a health probe, where a probe or a
\* call may start while another is in flight.
InitOverlap ==
  /\ \E v \in {VHealthRetry, VFailover}, store \in {NoItem, StoredToken} :
       Mounted(v, FALSE, store)
  /\ slots = MaxOverlap
  /\ ev = Started("mount")

OverlapApiOutcomes ==
  {Http(200, Data(TRUE, IssuedToken, "u1", <<>>)),
   Http(400, Data(FALSE, JSUndef, JSUndef, M_InvalidCredentials)),
   NetFail}

NextOverlap ==
  \/ StartInit
  \/ StartProbe
  \/ \E i \in Running, out \in HealthOutcomes : HealthRespond(i, out)
  \/ StartCall(NoOptionsHeaders, 1)
  \/ \E i \in Running, out \in OverlapApiOutcomes : Respond(i, out)
  \/ StartAuth("login")
  \/ \E i \in Running, out \in HealthOutcomes : WakeRespond(i, out)
  \/ Logout

SpecOverlap == InitOverlap /\ [][NextOverlap]_vars

\* ---------------------------------------------------------------- claims

ProbeEnded == ev.type = "probeDone"
CallEnded == ev.type = "callDone"
Dispatches(task) == Len(task.sent)

\* C1: whenever checkApiHealth returns, whatever the two health requests
\* did, the status it has set is production, local or offline, never
\* checking, and the value it returns is the status it set.
C1_ProbeEndsDecided ==
  ProbeEnded =>
    /\ apiStatus \in {"production", "local", "offline"}
    /\ apiStatus # "checking"
    /\ ev.status = apiStatus

\* A probe has returned after both health requests failed.
C1_Witness ==
  /\ ProbeEnded
  /\ ev.task.asked = <<PRODUCTION_API_URL, LOCAL_API_URL>>
  /\ ~HealthAlive(ev.out)
  /\ ev.status = "offline"

\* C2: when the primary's health request is answered with a 2xx status, the
\* probe ends on that answer with currentApiUrl the primary and the status
\* production, and the fallback has not been asked.
C2_PrimaryWins ==
  (ev.type \in {"probeDone", "probeNext"} /\ ev.task.pc = "healthP"
     /\ ResponseOk(ev.out)) =>
    /\ ProbeEnded
    /\ currentApiUrl = PRODUCTION_API_URL
    /\ apiStatus = "production"
    /\ ev.status = "production"
    /\ ev.task.asked = <<PRODUCTION_API_URL>>

\* The primary answered a probe that began with the fallback active.
C2_Witness ==
  /\ ProbeEnded
  /\ ev.task.pc = "healthP"
  /\ ResponseOk(ev.out)
  /\ ev.urlPre = LOCAL_API_URL
  /\ currentApiUrl = PRODUCTION_API_URL

\* C3: when the primary's health request has failed or timed out and the
\* fallback's is answered with a 2xx status, the probe ends with the status
\* local and currentApiUrl the fallback.
C3_FallbackWins ==
  (ProbeEnded /\ ev.task.pc = "healthF" /\ ResponseOk(ev.out)) =>
    /\ apiStatus = "local"
    /\ ev.status = "local"
    /\ currentApiUrl = LOCAL_API_URL

\* The fallback answered a probe that began with the primary active.
C3_Witness ==
  /\ ProbeEnded
  /\ ev.task.asked = <<PRODUCTION_API_URL, LOCAL_API_URL>>
  /\ ResponseOk(ev.out)
  /\ ev.urlPre = PRODUCTION_API_URL
  /\ currentApiUrl = LOCAL_API_URL

\* C4: a probe whose two health requests both fail ends with the status
\* offline and leaves currentApiUrl as it was, and no earlier step of a probe
\* writes currentApiUrl; a probe repeated while both stay down ends the same.
C4_OfflineKeepsUrl ==
  /\ (ProbeEnded /\ ev.task.pc = "healthF" /\ ~ResponseOk(ev.out)) =>
       /\ apiStatus = "offline"
       /\ ev.status = "offline"
       /\ currentApiUrl = ev.urlPre
  /\ ev.type \in {"probeStart", "probeNext"} => currentApiUrl = ev.urlPre

\* Both candidates were down in a probe that began with the fallback active.
C4_Witness ==
  /\ ProbeEnded
  /\ ev.task.pc = "healthF"
  /\ ~ResponseOk(ev.out)
  /\ ev.urlPre = LOCAL_API_URL
  /\ currentApiUrl = LOCAL_API_URL
  /\ apiStatus = "offline"

C6_SuccessReturnsPayload ==
  (ev.type \in {"callDone", "retry", "failover"} /\ ResponseOk(ev.out)) =>
    /\ CallEnded
    /\ ev.ret = Ok(ev.out.data)

\* A retrying call returned the payload of its second dispatch.
C6_Witness ==
  /\ variant # VFailover
  /\ CallEnded
  /\ Dispatches(ev.task) = 2
  /\ ResponseOk(ev.out)
  /\ ev.out.data.success
  /\ ev.ret.kind = "ok"

\* C7: a dispatch answered with a status >= 400 is never followed by another
\* dispatch of the same call, whatever the budget and the message, in every
\* variant.
C7_RejectionNeverRetried ==
  ev.type \in {"retry", "failover"} => ~Rejected(ev.out)

\* C8: when login's dispatch is answered with a status >= 400, the error
\* apiCall throws and the message login reports are the server's message, or
\* the generic one when there is none.
C8_ServerMessageSurfaced ==
  (CallEnded /\ ev.task.kind = "login" /\ Rejected(ev.out)) =>
    LET said == OrElse(ev.out.data.message, GenericMessage(variant))
    IN /\ ev.ret.kind = "err"
       /\ ev.ret.message = said
       /\ error = said

\* C9: no dispatch carries the Authorization header 'Bearer undefined' or
\* 'Bearer null'.
C9_NoBearerOfNothing ==
  \A i \in Running : \A k \in 1..Len(tasks[i].sent) :
    LET h == tasks[i].sent[k].headers
    IN "Authorization" \in DOMAIN h =>
         h["Authorization"] \notin {"Bearer undefined", "Bearer null"}

\* C10: after the startup probe has returned local, every dispatch the
\* startup makes (the verification of the token) goes to the fallback.
C10_VerifyGoesToFallback ==
  \A i \in Running :
    (tasks[i].kind = "init" /\ tasks[i].probeRet = "local") =>
      \A k \in 1..Len(tasks[i].sent) :
        /\ tasks[i].sent[k].url = LOCAL_API_URL
        /\ tasks[i].sent[k].path = "/auth/verify-token"

\* C11: in every state, whatever probes, calls, failovers, logins and
\* logouts have run and however they overlapped, currentApiUrl is one of the
\* two candidate base URLs.
C11_UrlIsCandidate ==
  currentApiUrl \in {PRODUCTION_API_URL, LOCAL_API_URL}

\* A failover has just switched currentApiUrl while another function is in
\* flight.
C11_Witness ==
  /\ ev.type = "failover"
  /\ Len(tasks) = MaxOverlap
  /\ currentApiUrl # ev.urlPre

\* C12: checkApiHealth never throws to its caller: a health request that
\* fails (connection failure, abort, non-2xx answer) is absorbed, the probe
\* goes on to the fallback or returns a status, and a double failure returns
\* offline.
C12_ProbeNeverThrows ==
  /\ ev.type # "probeThrew"
  /\ (ev.type \in {"probeNext", "probeDone"} /\ ~HealthAlive(ev.out)) =>
       /\ ev.ret.kind # "err"
       /\ ev.type = "probeDone" => ev.status = "offline"

\* The startup probe of part_000 returned after the fallback's health
\* request failed to connect.
C12_Witness ==
  /\ variant = VHealthRetry
  /\ ev.type = "probeDone"
  /\ ev.task.kind = "init"
  /\ ev.task.pc = "healthF"
  /\ ev.out = NetFail
  /\ ev.status = "offline"

\* C13: the headers of every dispatch are Content-Type: application/json,
\* Authorization: Bearer <token> when the call has a token, and the caller's
\* headers, a caller's header replacing only the default of the same name.
C13_HeadersAreUnion ==
  \A i \in Running : \A k \in 1..Len(tasks[i].sent) :
    tasks[i].sent[k].headers =
      Merge(DefaultHeaders(tasks[i].capToken),
            IF tasks[i].opts.hasHeaders THEN tasks[i].opts.headers
            ELSE NoHeaders)

\* The step just taken has made a dispatch for a function started earlier:
\* a retry, a failover, login's call after its wake-up request, or the
\* startup's verification after its probe.
DispatchedLate ==
  \/ ev.type \in {"retry", "failover", "woken"}
  \/ ev.type = "probeDone" /\ ev.task.kind = "init" /\ Truthy(ev.task.capToken)

\* C14: every dispatch carries the token as it is when the dispatch is made:
\* the new token after a login or register, no Authorization header after a
\* logout, never a token captured before.
C14_TokenReadFresh ==
  (DispatchedLate /\ ~ev.task.opts.hasHeaders) =>
    ComposeHeaders(variant, ev.task.capToken, ev.task.opts)
      = DefaultHeaders(token)

\* C15: a retry of a call is dispatched to currentApiUrl as it is when the
\* retry is made, not to the URL of the call's first dispatch.
C15_RetryReadsUrlAgain ==
  (ev.type = "retry" /\ ev.task.kind = "call") =>
    ev.task.capUrl = currentApiUrl

\* The messages login reports for a server that cannot be reached.
ConnectivityMessage(msg) ==
  \/ msg = M_Unable
  \/ msg = M_BothUnavailable
  \/ Includes(msg, <<"Cannot", "connect", "to", "server">>)

\* The call just ended reached no endpoint: no dispatch of it was answered.
NoneReached ==
  /\ ev.out.kind # "http"
  /\ variant = VFailover => ev.task.firstErr.name = "TypeError"

\* C16: the message login reports tells the two kinds of failure apart: it
\* is not a connectivity message when the endpoint answered with a status
\* >= 400, and it is not a server's rejection message when no endpoint was
\* reached.
C16_LoginMessageTellsKind ==
  (CallEnded /\ ev.task.kind = "login" /\ ev.ret.kind = "err") =>
    /\ Rejected(ev.out) => ~ConnectivityMessage(error)
    /\ NoneReached =>
         error \notin (ServerMessages \cup {GenericMessage(variant)})

\* C17: on the native transport a call whose body is not valid JSON text,
\* the empty string included, throws to its caller at once: it makes no
\* dispatch and is not retried.
C17_BadBodyFailsLoudly ==
  /\ \A i \in Running :
       (UsesNative(variant, native) /\ tasks[i].opts.body # JSUndef
          /\ tasks[i].opts.body \notin JSONTexts) => tasks[i].sent = <<>>
  /\ (CallEnded /\ UsesNative(variant, native) /\ ev.task.opts.body # JSUndef
        /\ ev.task.opts.body \notin JSONTexts) =>
       /\ ev.task.sent = <<>>
       /\ ev.ret.kind = "err"

\* C18: when login's or register's dispatch is answered 2xx with a payload
\* whose success is false, apiCall returns the payload, and the handler
\* stores no token and sets no user from it.
C18_SuccessMarkerChecked ==
  (CallEnded /\ ev.task.kind \in {"login", "register"} /\ ResponseOk(ev.out)
     /\ ~ev.out.data.success) =>
    /\ ev.ret = Ok(ev.out.data)
    /\ token # ev.out.data.token
    /\ user # ev.out.data.user
    /\ localStorage # ToStorageString(ev.out.data.token)

\* C19: apiStatus changes only in a step of a probe, and the effect starts a
\* probe only in its first run after the component is mounted: no login,
\* logout, register, change of token or change of currentApiUrl makes it
\* probe again.
C19_ProbesOnlyExplicit ==
  [][/\ apiStatus' # apiStatus =>
          ev'.type \in {"probeStart", "probeDone", "mount"}
     /\ (ev'.type = "probeStart" /\ tasks'[Len(tasks')].kind = "init") =>
          ~started]_vars

\* C20 as stated: a probe that has returned has written apiStatus exactly
\* once and currentApiUrl exactly once, whatever its health requests did.
C20_WritesExactlyOnce ==
  ProbeEnded =>
    /\ ev.task.statusWrites = 1
    /\ ev.task.urlWrites = 1

\* C20, amended: a probe that has returned has written apiStatus twice, to
\* 'checking' on entry and to its result at the end, and currentApiUrl once
\* when a candidate answered and not at all when both failed; also when
\* probes overlap, the probe that returns leaves its own result in apiStatus
\* and its own candidate, if it found one, in currentApiUrl.
C20_WritesByOutcome ==
  ProbeEnded =>
    /\ ev.task.statusWrites = 2
    /\ ev.task.urlWrites = IF ev.status = "offline" THEN 0 ELSE 1
    /\ apiStatus = ev.status
    /\ ev.status = "production" => currentApiUrl = PRODUCTION_API_URL
    /\ ev.status = "local" => currentApiUrl = LOCAL_API_URL
    /\ ev.status = "offline" => currentApiUrl = ev.urlPre

\* A probe has returned 'local' while another probe is still in flight.
C20_Witness ==
  /\ ProbeEnded
  /\ ev.status = "local"
  /\ \E i \in Running : tasks[i].pc \in {"healthP", "healthF"}

\* C21: on the web transport every call completes: no dispatch stays
\* unanswered for ever, because its timeout cancels it and the call goes on
\* with an error, and a call with a retry budget ends after at most
\* budget + 1 dispatches.
C21_EveryCallCompletes ==
  ~UsesNative(variant, native) =>
    /\ ~(ev.type = "hung" /\ ev.task.pc = "dispatch")
    /\ (CallEnded /\ variant # VFailover) =>
         Dispatches(ev.task) <= ev.task.budget + 1

\* C22: every probe returns: no health request stays unanswered for ever,
\* because its timeout ends it and the probe goes on to the next candidate
\* or to 'offline'.
C22_EveryProbeReturns ==
  ~(ev.type = "hung" /\ ev.task.pc \in {"healthP", "healthF"})

\* The other of the two candidates.
OtherCandidate(url) ==
  IF url = LOCAL_API_URL THEN PRODUCTION_API_URL ELSE LOCAL_API_URL

\* The endpoints a function has dispatched to, in order.
Endpoints(task) == [k \in 1..Len(task.sent) |-> task.sent[k].url]

\* The endpoints part_001's apiCall may have dispatched to when it ends: the
\* one of its closure, and then once the other candidate.
OneOrBoth(task) ==
  {<<task.capUrl>>, <<task.capUrl, OtherCandidate(task.capUrl)>>}

\* C23: in part_001, with calls in flight together, currentApiUrl is always
\* one of the two candidates and after a call's write it is the value that
\* call wrote; every call in flight has dispatched to the endpoint of its
\* closure and then at most once to the other candidate; and what a call
\* returns or throws is made of the answers to its own dispatches: the
\* payload of the dispatch that succeeded, or the error naming the two
\* errors of its own dispatches.
C23_FailoverRaceBenign ==
  variant = VFailover =>
    /\ currentApiUrl \in {PRODUCTION_API_URL, LOCAL_API_URL}
    /\ \A i \in Running :
         tasks[i].pc = "dispatch" =>
           Endpoints(tasks[i]) \in OneOrBoth(tasks[i])
    /\ ev.type = "failover" =>
         /\ currentApiUrl = OtherCandidate(ev.task.capUrl)
         /\ \E i \in Running :
              /\ tasks[i].kind = ev.task.kind
              /\ tasks[i].capUrl = ev.task.capUrl
              /\ Endpoints(tasks[i])
                   = <<ev.task.capUrl, OtherCandidate(ev.task.capUrl)>>
              /\ tasks[i].firstErr = WebAttempt(variant, ev.out)
    /\ CallEnded =>
         LET last == WebAttempt(variant, ev.out)
         IN /\ Dispatches(ev.task) = 1 =>
                 /\ ev.task.firstErr = NoResult
                 /\ ev.ret = last
            /\ Dispatches(ev.task) = 2 =>
                 /\ ev.task.firstErr.kind = "err"
                 /\ ev.ret = IF last.kind = "ok" THEN last
                             ELSE BothFailed(ev.task.capUrl,
                                             ev.task.firstErr, last)
            /\ (ev.ret.kind = "err" /\ ev.task.capUrl # LOCAL_API_URL) =>
                 currentApiUrl = PRODUCTION_API_URL

\* A call has just failed over while another call, which failed over before
\* it, is still in flight on the endpoint it chose, and currentApiUrl is no
\* longer that endpoint.
C23_Witness ==
  /\ variant = VFailover
  /\ ev.type = "failover"
  /\ ev.task.kind = "call"
  /\ \E i \in Running :
       /\ tasks[i].kind = "call"
       /\ tasks[i].pc = "dispatch"
       /\ Dispatches(tasks[i]) = 2
       /\ Endpoints(tasks[i])[2] # currentApiUrl

\* C24 as stated: in part_001 a call dispatches to one endpoint and then at
\* most once to the other candidate, and when it has completed currentApiUrl
\* is as its last step found it if the first dispatch succeeded, the other
\* candidate if the second succeeded, and PRODUCTION_API_URL if both failed.
C24_SettledAtCompletion ==
  (variant = VFailover /\ CallEnded) =>
    /\ Endpoints(ev.task) \in OneOrBoth(ev.task)
    /\ (Dispatches(ev.task) = 1 /\ ev.ret.kind = "ok") =>
         currentApiUrl = ev.urlPre
    /\ (Dispatches(ev.task) = 2 /\ ev.ret.kind = "ok") =>
         currentApiUrl = OtherCandidate(ev.task.capUrl)
    /\ ev.ret.kind = "err" =>
         /\ Dispatches(ev.task) = 2
         /\ currentApiUrl = PRODUCTION_API_URL

\* C24, amended: in part_001 a call dispatches to one endpoint and then at
\* most once to the other candidate, never to the same endpoint twice; it
\* writes currentApiUrl when it fails over, to the other candidate, and when
\* both dispatches have failed in a call that did not start on the local
\* endpoint, to PRODUCTION_API_URL; a completion after a dispatch that
\* succeeded, or after both failed in a call that started on the local
\* endpoint, leaves currentApiUrl as it finds it, whoever wrote it last.
C24_TwoEndpointsOwnWrites ==
  variant = VFailover =>
    /\ ev.type = "failover" =>
         /\ Endpoints(ev.task) = <<ev.task.capUrl>>
         /\ currentApiUrl = OtherCandidate(ev.task.capUrl)
    /\ CallEnded =>
         /\ Endpoints(ev.task) \in OneOrBoth(ev.task)
         /\ ev.ret.kind = "ok" => currentApiUrl = ev.urlPre
         /\ ev.ret.kind = "err" =>
              /\ Dispatches(ev.task) = 2
              /\ currentApiUrl = IF ev.task.capUrl # LOCAL_API_URL
                                   THEN PRODUCTION_API_URL
                                   ELSE ev.urlPre

\* A call has completed on its second dispatch, to the other candidate, and
\* currentApiUrl is not that candidate: something else wrote it meanwhile.
C24_Witness ==
  /\ variant = VFailover
  /\ CallEnded
  /\ Dispatches(ev.task) = 2
  /\ ev.ret.kind = "ok"
  /\ currentApiUrl # OtherCandidate(ev.task.capUrl)

\* C25: apiStatus and currentApiUrl agree in every state: when apiStatus is
\* 'production' currentApiUrl is PRODUCTION_API_URL, and when it is 'local'
\* currentApiUrl is LOCAL_API_URL.
C25_StatusMatchesUrl ==
  /\ apiStatus = "production" => currentApiUrl = PRODUCTION_API_URL
  /\ apiStatus = "local" => currentApiUrl = LOCAL_API_URL

\* The startup's verify-token call has just ended, and the user has done
\* nothing since the page was loaded.
VerifyEnded == CallEnded /\ ev.task.kind = "init" /\ ops = 0

\* C26: when the startup's verify-token call ends with a payload whose
\* success is true, the user is set from it and the token the call was made
\* with is still in memory and in localStorage; when it ends in any other
\* way, the token is gone from memory and from localStorage; also when the
\* probe has changed currentApiUrl and the effect has run again.
C26_TokenSurvivesIffVerified ==
  VerifyEnded =>
    IF ev.ret.kind = "ok" /\ ev.ret.data.success
      THEN /\ user = ev.ret.data.user
           /\ token = ev.task.capToken
           /\ localStorage = ToStorageString(ev.task.capToken)
      ELSE /\ token = JSNull
           /\ localStorage = NoItem

\* No login, register or initialisation is in progress: none is in flight
\* and the effect is not due.
SessionAtRest ==
  /\ ~effectPending
  /\ \A i \in Running : tasks[i].kind \notin {"login", "register", "init"}

\* C27: whenever no login, register or initialisation is in progress, a
\* user that is set has a token: the token is in memory, and it is the item
\* in localStorage.
C27_UserHasToken ==
  (SessionAtRest /\ Truthy(user)) =>
    /\ Truthy(token)
    /\ localStorage = ToStorageString(token)

====
